---- MODULE Spec2Model ----
(***************************************************************************)
(* Curriculum-standard recommendation engine of the lesson wizard:         *)
(* the hook useCurriculumRecommendation (hooks/useCurriculumRecommendation)*)
(* and the catalog of utils/curriculumStandards; the selector variant of   *)
(* components/CurriculumSelector; the lesson generator GeminiService; and  *)
(* the wizard of App.                                                      *)
(*                                                                         *)
(* JavaScript strings that the code inspects character by character        *)
(* (location, gradeLevel) are sequences of one-character strings; strings  *)
(* that are only compared or shown (ids, reasons, enum tags) are strings.  *)
(* An optional value is a sequence of length 0 (undefined / null) or 1.    *)
(***************************************************************************)
EXTENDS Integers, Sequences, FiniteSets, TLC

VARIABLES
  \* React state and props of one mounted useCurriculumRecommendation
  userContext,        \* the userContext prop of the latest render
  recommendations,    \* useState<RecommendationResult[]>([])
  analytics,          \* useState<RecommendationAnalytics | null>(null)
  isAnalyzing,        \* useState(false)
  selectedStandard,   \* useState<CurriculumStandard | null>(null)
  mounted,            \* the mount effect has run
  timers,             \* runs suspended at `await setTimeout(1500)`, oldest first
  shownFor,           \* history: the context of the run that last wrote recommendations
  staleWrite,         \* history: a run wrote its results while a run for a newer,
                      \* different context was already waiting on its timer
  lookup,             \* return value of the lookup made by the latest step, if any
  \* a single call of one of the pure functions of the hook
  call,               \* the arguments of the call
  returned,           \* what the call returned (or that it threw)
  \* the singleton geminiService after its constructor
  service,            \* its private fields genAI, model, globalModel and the
                      \* VITE_GEMINI_API_KEY it was constructed under
  \* React state of App and of the hooks it uses
  currentStep,        \* useState<string>('dashboard')
  selectedClass,      \* useState<number | null>(null)
  selectedSubject,    \* useState<string>('')
  topic,              \* useState<string>('')
  globalStyle,        \* useState<string>('')
  uploadedFiles,      \* useState<File[]>([])
  lesson,             \* useState<any>(null)
  sidebarOpen,        \* useState(false)
  sessions,           \* useChatSessions: the sessions, oldest first
  currentSession,     \* useChatSessions: the id of the current session, if any
  inFlight            \* calls of handleGenerateLesson suspended at their await

vars == <<userContext, recommendations, analytics, isAnalyzing, selectedStandard,
          mounted, timers, shownFor, staleWrite, lookup, call, returned,
          service, currentStep, selectedClass, selectedSubject, topic, globalStyle,
          uploadedFiles, lesson, sidebarOpen, sessions, currentSession, inFlight>>

hookVars == <<userContext, recommendations, analytics, isAnalyzing, selectedStandard,
              mounted, timers, shownFor, staleWrite, lookup>>

pureVars == <<call, returned>>

wizardVars == <<currentStep, selectedClass, selectedSubject, topic, globalStyle,
                uploadedFiles, lesson, sidebarOpen, sessions, currentSession, inFlight>>

lessonVars == <<service, wizardVars>>

----------------------------------------------------------------------------
(* Bounds *)

MaxPending == 2      \* runs that may be suspended on their timer at once
MaxResults == 3      \* length of the result lists handed to generateAnalytics
MaxInFlight == 2     \* lesson requests of the wizard that may be awaited at once
MaxSessions == 2     \* sessions that the wizard creates

----------------------------------------------------------------------------
(* Optional values and small helpers *)

None == <<>>
Some(x) == <<x>>

Min(a, b) == IF a < b THEN a ELSE b

RECURSIVE SumConfidence(_)
SumConfidence(s) ==
  IF s = <<>> THEN 0 ELSE s[1].confidence + SumConfidence(Tail(s))

----------------------------------------------------------------------------
(* JavaScript string primitives used by analyzeStandardFit *)

UpperCase == <<"A","B","C","D","E","F","G","H","I","J","K","L","M",
               "N","O","P","Q","R","S","T","U","V","W","X","Y","Z">>
LowerCase == <<"a","b","c","d","e","f","g","h","i","j","k","l","m",
               "n","o","p","q","r","s","t","u","v","w","x","y","z">>

\* String.prototype.toLowerCase, one character
toLowerChar(c) ==
  IF \E i \in 1..26 : UpperCase[i] = c
  THEN LowerCase[CHOOSE i \in 1..26 : UpperCase[i] = c]
  ELSE c

\* String.prototype.toLowerCase
toLowerCase(s) == [i \in 1..Len(s) |-> toLowerChar(s[i])]

\* String.prototype.includes
includes(s, sub) ==
  \E i \in 0..(Len(s) - Len(sub)) : SubSeq(s, i + 1, i + Len(sub)) = sub

Digits == <<"0","1","2","3","4","5","6","7","8","9">>
IsDigit(c) == \E i \in 1..10 : Digits[i] = c
DigitValue(c) == (CHOOSE i \in 1..10 : Digits[i] = c) - 1

RECURSIVE SkipWhiteSpace(_)
SkipWhiteSpace(s) ==
  IF s # <<>> /\ s[1] = " " THEN SkipWhiteSpace(Tail(s)) ELSE s

\* value of the longest prefix of s made of decimal digits, acc the value so far
RECURSIVE ParseDigits(_, _)
ParseDigits(s, acc) ==
  IF s # <<>> /\ IsDigit(s[1])
  THEN ParseDigits(Tail(s), 10 * acc + DigitValue(s[1]))
  ELSE acc

\* parseInt(string) with no radix: leading white space is skipped, one sign
\* is accepted, the longest run of digits is read and what follows it is
\* ignored; no digit at all gives NaN (None).
parseInt(str) ==
  LET s    == SkipWhiteSpace(str)
      neg  == s # <<>> /\ s[1] = "-"
      body == IF s # <<>> /\ s[1] \in {"-", "+"} THEN Tail(s) ELSE s
  IN IF body = <<>> \/ ~IsDigit(body[1])
     THEN None
     ELSE Some(IF neg THEN 0 - ParseDigits(body, 0) ELSE ParseDigits(body, 0))

\* comparisons with a number that may be NaN: every comparison with NaN is false
LessEq(n, k)    == n # None /\ n[1] <= k
GreaterEq(n, k) == n # None /\ n[1] >= k

----------------------------------------------------------------------------
(* The catalog, utils/curriculumStandards *)

INDIAN_CURRICULUM_STANDARDS ==
  << [id |-> "ncert", priority |-> "primary", region |-> "national"],
     [id |-> "cbse",  priority |-> "primary", region |-> "national"],
     [id |-> "icse",  priority |-> "primary", region |-> "national"] >>

INTERNATIONAL_STANDARDS ==
  << [id |-> "ib",          priority |-> "secondary", region |-> "international"],
     [id |-> "cambridge",   priority |-> "secondary", region |-> "international"],
     [id |-> "common-core", priority |-> "secondary", region |-> "international"] >>

allStandards == INDIAN_CURRICULUM_STANDARDS \o INTERNATIONAL_STANDARDS

Standards == {allStandards[i] : i \in 1..Len(allStandards)}

----------------------------------------------------------------------------
(* analyzeStandardFit: the six contribution rules, in source order.  Each  *)
(* takes the running values r of the local variables confidence, reasons,  *)
(* priority, implementationComplexity and expectedOutcomes and returns     *)
(* them as the rule leaves them.                                           *)

\* context.location.toLowerCase().includes('india') || context.location === 'in'
IndicatesIndia(location) ==
  \/ includes(toLowerCase(location), <<"i","n","d","i","a">>)
  \/ location = <<"i","n">>

\* the initial values of the locals
InitialFit ==
  [confidence |-> 0, reasons |-> <<>>, priority |-> "alternative",
   implementationComplexity |-> "medium", expectedOutcomes |-> <<>>]

\* confidence += w; reasons.push(reason)
Contribute(r, w, reason) ==
  [r EXCEPT !.confidence = @ + w, !.reasons = Append(@, reason)]

\* GeographicRule with a mismatched region penalised instead of rewarded less
\* (`confidence -= 15` for an international standard in India)
GeographicRulePenalty(r, standard, context) ==
  IF IndicatesIndia(context.location)
  THEN IF standard.region = "national"
       THEN [Contribute(r, 35, "Designed specifically for Indian educational ecosystem")
               EXCEPT !.priority = "primary",
                      !.implementationComplexity = "low",
                      !.expectedOutcomes =
                         Append(@, "Seamless integration with existing Indian school systems")]
       ELSE [Contribute(r, 0 - 15, "Provides valuable international perspective")
               EXCEPT !.priority = "secondary",
                      !.implementationComplexity = "high",
                      !.expectedOutcomes =
                         Append(@, "Enhanced global awareness for students")]
  ELSE IF standard.region = "international"
       THEN [Contribute(r, 30, "International standard suitable for global schools")
               EXCEPT !.priority = "primary"]
       ELSE r

\* Geographic and cultural alignment
GeographicRule(r, standard, context) ==
  IF IndicatesIndia(context.location)
  THEN IF standard.region = "national"
       THEN [Contribute(r, 35, "Designed specifically for Indian educational ecosystem")
               EXCEPT !.priority = "primary",
                      !.implementationComplexity = "low",
                      !.expectedOutcomes =
                         Append(@, "Seamless integration with existing Indian school systems")]
       ELSE [Contribute(r, 15, "Provides valuable international perspective")
               EXCEPT !.priority = "secondary",
                      !.implementationComplexity = "high",
                      !.expectedOutcomes =
                         Append(@, "Enhanced global awareness for students")]
  ELSE IF standard.region = "international"
       THEN [Contribute(r, 30, "International standard suitable for global schools")
               EXCEPT !.priority = "primary"]
       ELSE r

\* SchoolTypeRule with the government weights of ncert and cbse exchanged
SchoolTypeRuleSwapped(r, standard, context) ==
  IF context.schoolType = "government"
  THEN IF standard.id = "ncert"
       THEN [Contribute(r, 15, "NCERT is the official framework for government schools")
               EXCEPT !.expectedOutcomes =
                         Append(@, "Direct alignment with government education policies")]
       ELSE IF standard.id = "cbse"
            THEN Contribute(r, 25, "CBSE builds upon NCERT foundation")
            ELSE r
  ELSE IF context.schoolType = "private"
  THEN IF standard.id = "cbse" \/ standard.id = "icse"
       THEN [Contribute(r, 20, "Widely adopted by private schools for board exam preparation")
               EXCEPT !.expectedOutcomes = Append(@, "Strong board exam performance")]
       ELSE r
  ELSE IF context.schoolType = "international"
  THEN IF standard.id = "ib" \/ standard.id = "cambridge"
       THEN [Contribute(r, 25, "Internationally recognized for student mobility")
               EXCEPT !.implementationComplexity = "high",
                      !.expectedOutcomes =
                         Append(@, "Global university admission advantages")]
       ELSE r
  ELSE r

\* SchoolTypeRule whose international branch also sets priority = 'primary'
SchoolTypeRulePromotes(r, standard, context) ==
  IF context.schoolType = "government"
  THEN IF standard.id = "ncert"
       THEN [Contribute(r, 25, "NCERT is the official framework for government schools")
               EXCEPT !.expectedOutcomes =
                         Append(@, "Direct alignment with government education policies")]
       ELSE IF standard.id = "cbse"
            THEN Contribute(r, 15, "CBSE builds upon NCERT foundation")
            ELSE r
  ELSE IF context.schoolType = "private"
  THEN IF standard.id = "cbse" \/ standard.id = "icse"
       THEN [Contribute(r, 20, "Widely adopted by private schools for board exam preparation")
               EXCEPT !.expectedOutcomes = Append(@, "Strong board exam performance")]
       ELSE r
  ELSE IF context.schoolType = "international"
  THEN IF standard.id = "ib" \/ standard.id = "cambridge"
       THEN [Contribute(r, 25, "Internationally recognized for student mobility")
               EXCEPT !.priority = "primary",
                      !.implementationComplexity = "high",
                      !.expectedOutcomes =
                         Append(@, "Global university admission advantages")]
       ELSE r
  ELSE r

\* School type alignment
SchoolTypeRule(r, standard, context) ==
  IF context.schoolType = "government"
  THEN IF standard.id = "ncert"
       THEN [Contribute(r, 25, "NCERT is the official framework for government schools")
               EXCEPT !.expectedOutcomes =
                         Append(@, "Direct alignment with government education policies")]
       ELSE IF standard.id = "cbse"
            THEN Contribute(r, 15, "CBSE builds upon NCERT foundation")
            ELSE r
  ELSE IF context.schoolType = "private"
  THEN IF standard.id = "cbse" \/ standard.id = "icse"
       THEN [Contribute(r, 20, "Widely adopted by private schools for board exam preparation")
               EXCEPT !.expectedOutcomes = Append(@, "Strong board exam performance")]
       ELSE r
  ELSE IF context.schoolType = "international"
  THEN IF standard.id = "ib" \/ standard.id = "cambridge"
       THEN [Contribute(r, 25, "Internationally recognized for student mobility")
               EXCEPT !.implementationComplexity = "high",
                      !.expectedOutcomes =
                         Append(@, "Global university admission advantages")]
       ELSE r
  ELSE r

\* Language preference alignment
LanguageRule(r, standard, context) ==
  IF context.language = "hindi"
  THEN IF standard.region = "national"
       THEN [Contribute(r, 20, "Strong Hindi language support and cultural integration")
               EXCEPT !.expectedOutcomes =
                         Append(@, "Better student comprehension in native language")]
       ELSE r
  ELSE IF context.language = "english"
  THEN IF standard.region = "international"
       THEN Contribute(r, 15, "English-medium instruction with global perspective")
       ELSE r
  ELSE r

\* GradeLevelRule with the first test written `!(gradeNum > 5)`, which is
\* true of NaN
GradeLevelRuleNaN(r, standard, context) ==
  IF context.gradeLevel # None /\ context.gradeLevel[1] # <<>>
  THEN LET gradeNum == parseInt(context.gradeLevel[1])
       IN IF ~(gradeNum # None /\ gradeNum[1] > 5) /\ standard.id = "ncert"
          THEN [Contribute(r, 10, "NCERT provides excellent foundation for primary education")
                  EXCEPT !.expectedOutcomes =
                            Append(@, "Strong conceptual foundation building")]
          ELSE IF GreaterEq(gradeNum, 9) /\ (standard.id = "cbse" \/ standard.id = "icse")
               THEN [Contribute(r, 10, "Optimized for board exam preparation")
                       EXCEPT !.expectedOutcomes =
                                 Append(@, "Enhanced board exam performance")]
               ELSE r
  ELSE r

\* Grade level considerations.  `if (context.gradeLevel)` is false for an
\* absent grade and for the empty string.
GradeLevelRule(r, standard, context) ==
  IF context.gradeLevel # None /\ context.gradeLevel[1] # <<>>
  THEN LET gradeNum == parseInt(context.gradeLevel[1])
       IN IF LessEq(gradeNum, 5) /\ standard.id = "ncert"
          THEN [Contribute(r, 10, "NCERT provides excellent foundation for primary education")
                  EXCEPT !.expectedOutcomes =
                            Append(@, "Strong conceptual foundation building")]
          ELSE IF GreaterEq(gradeNum, 9) /\ (standard.id = "cbse" \/ standard.id = "icse")
               THEN [Contribute(r, 10, "Optimized for board exam preparation")
                       EXCEPT !.expectedOutcomes =
                                 Append(@, "Enhanced board exam performance")]
               ELSE r
  ELSE r

\* Teaching experience factor
TeachingExperienceRule(r, standard, context) ==
  IF context.teachingExperience = "beginner" /\ standard.id = "ncert"
  THEN [Contribute(r, 5, "NCERT provides comprehensive teacher support materials")
          EXCEPT !.implementationComplexity = "low"]
  ELSE IF context.teachingExperience = "expert" /\ standard.region = "international"
       THEN Contribute(r, 5, "International standards offer advanced pedagogical approaches")
       ELSE r

\* ResourceAvailabilityRule without `implementationComplexity = 'low'`
ResourceAvailabilityRuleKeepsComplexity(r, standard, context) ==
  IF context.resourceAvailability = "limited" /\ standard.region = "national"
  THEN Contribute(r, 5, "Designed for diverse resource environments in India")
  ELSE IF context.resourceAvailability = "abundant" /\ standard.region = "international"
       THEN Contribute(r, 5, "Can leverage advanced resources for international curriculum")
       ELSE r

\* Resource availability factor
ResourceAvailabilityRule(r, standard, context) ==
  IF context.resourceAvailability = "limited" /\ standard.region = "national"
  THEN [Contribute(r, 5, "Designed for diverse resource environments in India")
          EXCEPT !.implementationComplexity = "low"]
  ELSE IF context.resourceAvailability = "abundant" /\ standard.region = "international"
       THEN Contribute(r, 5, "Can leverage advanced resources for international curriculum")
       ELSE r

MaxConfidence == 100

\* AccumulatedFit with the language block placed before the school-type block
AccumulatedFitReordered(standard, context) ==
  LET r1 == GeographicRule(InitialFit, standard, context)
      r2 == LanguageRule(r1, standard, context)
      r3 == SchoolTypeRule(r2, standard, context)
      r4 == GradeLevelRule(r3, standard, context)
      r5 == TeachingExperienceRule(r4, standard, context)
  IN ResourceAvailabilityRule(r5, standard, context)

\* the locals of analyzeStandardFit just before its return statement
AccumulatedFit(standard, context) ==
  LET r1 == GeographicRule(InitialFit, standard, context)
      r2 == SchoolTypeRule(r1, standard, context)
      r3 == LanguageRule(r2, standard, context)
      r4 == GradeLevelRule(r3, standard, context)
      r5 == TeachingExperienceRule(r4, standard, context)
  IN ResourceAvailabilityRule(r5, standard, context)

analyzeStandardFit(standard, context) ==
  LET r == AccumulatedFit(standard, context)
  IN [standard                 |-> standard,
      confidence               |-> Min(r.confidence, MaxConfidence),
      reasons                  |-> r.reasons,
      priority                 |-> r.priority,
      implementationComplexity |-> r.implementationComplexity,
      expectedOutcomes         |-> r.expectedOutcomes]

----------------------------------------------------------------------------
(* generateRecommendations, the part after the await *)

MinimumThreshold == 30

\* priorityWeight with the weights of primary and alternative exchanged
priorityWeightInverted == [primary |-> 10, secondary |-> 50, alternative |-> 100]

\* priorityWeight with primary only ten above secondary
priorityWeightNarrow == [primary |-> 60, secondary |-> 50, alternative |-> 10]

priorityWeight == [primary |-> 100, secondary |-> 50, alternative |-> 10]

\* compareFn with the operands of the subtraction exchanged (ascending order)
compareFnAscending(a, b) ==
  LET aScore == a.confidence + priorityWeight[a.priority]
      bScore == b.confidence + priorityWeight[b.priority]
  IN aScore - bScore

\* the comparator handed to results.sort: positive when b must come first
compareFn(a, b) ==
  LET aScore == a.confidence + priorityWeight[a.priority]
      bScore == b.confidence + priorityWeight[b.priority]
  IN bScore - aScore

\* InsertSorted of a sort that is not stable: x also moves past the elements
\* the comparator holds equal to it
RECURSIVE InsertSortedUnstable(_, _)
InsertSortedUnstable(s, x) ==
  IF s # <<>> /\ compareFn(s[Len(s)], x) >= 0
  THEN Append(InsertSortedUnstable(SubSeq(s, 1, Len(s) - 1), x), s[Len(s)])
  ELSE Append(s, x)

\* Array.prototype.sort is a stable sort (ECMAScript 2019): x, which came
\* after every element of the sorted prefix s, moves left only past the
\* elements that the comparator orders strictly after it.
RECURSIVE InsertSorted(_, _)
InsertSorted(s, x) ==
  IF s # <<>> /\ compareFn(s[Len(s)], x) > 0
  THEN Append(InsertSorted(SubSeq(s, 1, Len(s) - 1), x), s[Len(s)])
  ELSE Append(s, x)

RECURSIVE sort(_)
sort(s) ==
  IF s = <<>> THEN <<>>
  ELSE InsertSorted(sort(SubSeq(s, 1, Len(s) - 1)), s[Len(s)])

\* PassesThreshold with > in place of >=
PassesThresholdStrict(analysis) == analysis.confidence > MinimumThreshold

\* if (analysis.confidence >= 30) results.push(analysis)
PassesThreshold(analysis) == analysis.confidence >= MinimumThreshold

\* the for loop over allStandards
RECURSIVE ScoreAll(_, _)
ScoreAll(standards, context) ==
  IF standards = <<>> THEN <<>>
  ELSE LET analysis == analyzeStandardFit(standards[1], context)
           rest     == ScoreAll(Tail(standards), context)
       IN IF PassesThreshold(analysis) THEN <<analysis>> \o rest ELSE rest

\* the value generateRecommendations(context) resolves to
generateRecommendations(context) == sort(ScoreAll(allStandards, context))

----------------------------------------------------------------------------
(* The selector variant: generateRecommendations of the component          *)
(* CurriculumSelector, the part after the await.  The component reads its  *)
(* props userLocation, schoolType, language and gradeLevel, which are the  *)
(* fields location, schoolType, language and gradeLevel of a context.      *)

\* let confidence = 0; const reasons = []; let priority = 'alternative'
SelectorInitial == [confidence |-> 0, reasons |-> <<>>, priority |-> "alternative"]

\* confidence += w; reasons.push(reason)
SelectorContribute(r, w, reason) ==
  [r EXCEPT !.confidence = @ + w, !.reasons = Append(@, reason)]

\* SelectorGeographic with the weight of a national standard in India raised
\* from 40 to 50
SelectorGeographicHeavier(r, standard, props) ==
  IF IndicatesIndia(props.location)
  THEN IF standard.region = "national"
       THEN [SelectorContribute(r, 50, "Designed specifically for Indian educational system")
               EXCEPT !.priority = "primary"]
       ELSE [SelectorContribute(r, 10, "International perspective valuable for global awareness")
               EXCEPT !.priority = "secondary"]
  ELSE IF standard.region = "international"
       THEN [SelectorContribute(r, 35, "International standard suitable for global schools")
               EXCEPT !.priority = "primary"]
       ELSE r

\* Location-based scoring
SelectorGeographic(r, standard, props) ==
  IF IndicatesIndia(props.location)
  THEN IF standard.region = "national"
       THEN [SelectorContribute(r, 40, "Designed specifically for Indian educational system")
               EXCEPT !.priority = "primary"]
       ELSE [SelectorContribute(r, 10, "International perspective valuable for global awareness")
               EXCEPT !.priority = "secondary"]
  ELSE IF standard.region = "international"
       THEN [SelectorContribute(r, 35, "International standard suitable for global schools")
               EXCEPT !.priority = "primary"]
       ELSE r

\* School type scoring
SelectorSchoolType(r, standard, props) ==
  IF props.schoolType = "government" /\ standard.id = "ncert"
  THEN SelectorContribute(r, 30, "NCERT is the foundation for government school curriculum")
  ELSE IF props.schoolType = "private" /\ standard.id = "cbse"
       THEN SelectorContribute(r, 25, "CBSE widely adopted by private schools in India")
       ELSE IF props.schoolType = "international"
                 /\ (standard.id = "ib" \/ standard.id = "cambridge")
            THEN SelectorContribute(r, 30,
                                    "Internationally recognized curriculum for global mobility")
            ELSE r

\* Language preference scoring
SelectorLanguage(r, standard, props) ==
  IF props.language = "hindi" /\ standard.region = "national"
  THEN SelectorContribute(r, 15, "Strong Hindi language support and cultural integration")
  ELSE IF props.language = "english" /\ standard.region = "international"
       THEN SelectorContribute(r, 10, "English-medium instruction with global perspective")
       ELSE r

\* Grade level considerations.  `if (gradeLevel)` is false for an absent
\* grade and for the empty string.
SelectorGradeLevel(r, standard, props) ==
  IF props.gradeLevel # None /\ props.gradeLevel[1] # <<>>
  THEN LET gradeNum == parseInt(props.gradeLevel[1])
       IN IF LessEq(gradeNum, 5) /\ standard.id = "ncert"
          THEN SelectorContribute(r, 10,
                                  "NCERT provides excellent foundation for primary grades")
          ELSE IF GreaterEq(gradeNum, 9) /\ (standard.id = "cbse" \/ standard.id = "icse")
               THEN SelectorContribute(r, 15,
                                       "Strong board exam preparation for secondary grades")
               ELSE r
  ELSE r

\* the locals of one forEach iteration just before the threshold test
SelectorAccumulated(standard, props) ==
  LET r1 == SelectorGeographic(SelectorInitial, standard, props)
      r2 == SelectorSchoolType(r1, standard, props)
      r3 == SelectorLanguage(r2, standard, props)
  IN SelectorGradeLevel(r3, standard, props)

SelectorThreshold == 20

\* SelectorPasses with > in place of >=
SelectorPassesStrict(r) == r.confidence > SelectorThreshold

\* if (confidence >= 20)
SelectorPasses(r) == r.confidence >= SelectorThreshold

\* the entry pushed for a standard that passes
SelectorEntry(standard, r) ==
  [standard |-> standard, confidence |-> Min(r.confidence, MaxConfidence),
   reasons |-> r.reasons, priority |-> r.priority]

\* allStandards.forEach(...)
RECURSIVE SelectorScoreAll(_, _)
SelectorScoreAll(standards, props) ==
  IF standards = <<>> THEN <<>>
  ELSE LET r    == SelectorAccumulated(standards[1], props)
           rest == SelectorScoreAll(Tail(standards), props)
       IN IF SelectorPasses(r) THEN <<SelectorEntry(standards[1], r)>> \o rest ELSE rest

priorityOrder == [primary |-> 3, secondary |-> 2, alternative |-> 1]

\* selectorCompareFn that looks at the confidence only
selectorCompareFnConfidenceOnly(a, b) == b.confidence - a.confidence

\* the comparator handed to contextualRecommendations.sort
selectorCompareFn(a, b) ==
  IF a.priority # b.priority
  THEN priorityOrder[b.priority] - priorityOrder[a.priority]
  ELSE b.confidence - a.confidence

\* the stable insertion step of Array.prototype.sort under selectorCompareFn
RECURSIVE SelectorInsertSorted(_, _)
SelectorInsertSorted(s, x) ==
  IF s # <<>> /\ selectorCompareFn(s[Len(s)], x) > 0
  THEN Append(SelectorInsertSorted(SubSeq(s, 1, Len(s) - 1), x), s[Len(s)])
  ELSE Append(s, x)

RECURSIVE selectorSort(_)
selectorSort(s) ==
  IF s = <<>> THEN <<>>
  ELSE SelectorInsertSorted(selectorSort(SubSeq(s, 1, Len(s) - 1)), s[Len(s)])

\* the list handed to setRecommendations
contextualRecommendations(props) == selectorSort(SelectorScoreAll(allStandards, props))

----------------------------------------------------------------------------
(* generateAnalytics *)

RECURSIVE GCD(_, _)
GCD(a, b) == IF b = 0 THEN a ELSE GCD(b, a % b)

\* Divide with the quotient rounded down to an integer (Math.floor(a / b))
DivideFloor(a, b) ==
  IF b = 0 THEN [num |-> 0, den |-> 0]
  ELSE [num |-> a \div b, den |-> 1]

\* a / b on non-negative integers, as a fraction in lowest terms; 0 / 0 is
\* NaN, written with denominator 0
Divide(a, b) ==
  IF b = 0 THEN [num |-> 0, den |-> 0]
  ELSE [num |-> a \div GCD(a, b), den |-> b \div GCD(a, b)]

IsNaN(q) == q.den = 0

\* SatisfactionOf without the cap: q + 10
SatisfactionOfUncapped(q) ==
  IF IsNaN(q) THEN q ELSE [num |-> q.num + 10 * q.den, den |-> q.den]

\* Math.min(q + 10, 95)
SatisfactionOf(q) ==
  IF IsNaN(q) THEN q
  ELSE IF q.num + 10 * q.den < 95 * q.den
       THEN [num |-> q.num + 10 * q.den, den |-> q.den]
       ELSE [num |-> 95, den |-> 1]

\* rec.standard.region === 'national' ? 'Indian' : 'International'
CategoryOf(rec) == IF rec.standard.region = "national" THEN "Indian" ELSE "International"

\* acc[category] = (acc[category] || 0) + 1, on an object whose keys keep
\* their insertion order: acc is the sequence of its entries <<key, count>>
CountCategory(acc, category) ==
  IF \E i \in 1..Len(acc) : acc[i][1] = category
  THEN [i \in 1..Len(acc) |->
          IF acc[i][1] = category THEN <<category, acc[i][2] + 1>> ELSE acc[i]]
  ELSE Append(acc, <<category, 1>>)

\* recommendations.reduce(..., {}) building categoryCount
RECURSIVE categoryCount(_, _)
categoryCount(recs, acc) ==
  IF recs = <<>> THEN acc
  ELSE categoryCount(Tail(recs), CountCategory(acc, CategoryOf(recs[1])))

\* the callback of the second reduce: (a, b) => a[1] > b[1] ? a : b
LargerEntry(a, b) == IF a[2] > b[2] THEN a ELSE b

\* entries.reduce(callback) with no initial value, entries not empty
RECURSIVE ReduceEntries(_, _)
ReduceEntries(acc, rest) ==
  IF rest = <<>> THEN acc
  ELSE ReduceEntries(LargerEntry(acc, rest[1]), Tail(rest))

\* TimeEstimateOf reading the last result instead of the first
TimeEstimateOfLast(recs) ==
  IF recs # <<>> /\ recs[Len(recs)].implementationComplexity = "low" THEN "1-2 weeks"
  ELSE IF recs # <<>> /\ recs[Len(recs)].implementationComplexity = "medium" THEN "3-4 weeks"
  ELSE "6-8 weeks"

\* recommendations[0]?.implementationComplexity mapped to the estimate
TimeEstimateOf(recs) ==
  IF recs # <<>> /\ recs[1].implementationComplexity = "low" THEN "1-2 weeks"
  ELSE IF recs # <<>> /\ recs[1].implementationComplexity = "medium" THEN "3-4 weeks"
  ELSE "6-8 weeks"

Threw == [threw |-> TRUE, value |-> None]
Returned(v) == [threw |-> FALSE, value |-> Some(v)]

\* generateAnalytics(recs): reduce without an initial value throws a
\* TypeError on the empty entry list
generateAnalytics(recs) ==
  LET totalRecommendations == Len(recs)
      averageConfidence    == Divide(SumConfidence(recs), totalRecommendations)
      entries              == categoryCount(recs, <<>>)
  IN IF entries = <<>> THEN Threw
     ELSE Returned(
            [totalRecommendations       |-> totalRecommendations,
             averageConfidence          |-> averageConfidence,
             topCategory                |-> ReduceEntries(entries[1], Tail(entries))[1],
             userSatisfactionPrediction |-> SatisfactionOf(averageConfidence),
             implementationTimeEstimate |-> TimeEstimateOf(recs)])

----------------------------------------------------------------------------
(* Lookups by standard id over the recommendations state *)

\* find with a predicate that is always truthy (`=` written for `===`): the
\* first element, whatever its id
findAny(recs, standardId) ==
  IF recs # <<>> THEN Some(recs[1]) ELSE None

\* recs.find(r => r.standard.id === standardId)
find(recs, standardId) ==
  IF \E i \in 1..Len(recs) : recs[i].standard.id = standardId
  THEN Some(recs[CHOOSE i \in 1..Len(recs) :
                   /\ recs[i].standard.id = standardId
                   /\ \A j \in 1..(i - 1) : recs[j].standard.id # standardId])
  ELSE None

\* recommendation?.reasons || []
getRecommendationReasoning(recs, standardId) ==
  LET recommendation == find(recs, standardId)
  IN IF recommendation = None THEN Returned(<<>>)
     ELSE Returned(recommendation[1].reasons)

UnknownGuidance ==
  [complexity |-> "Unknown", timeEstimate |-> "Not available",
   steps |-> <<>>, resources |-> <<>>]

complexityMap ==
  [low    |-> "Low - Minimal changes required",
   medium |-> "Medium - Moderate integration effort",
   high   |-> "High - Significant restructuring needed"]

timeMap == [low |-> "1-2 weeks", medium |-> "3-4 weeks", high |-> "6-8 weeks"]

stepMap ==
  [low    |-> <<"Update content templates with new standard requirements",
                "Train teachers on new curriculum elements",
                "Implement gradual rollout across classes">>,
   medium |-> <<"Conduct comprehensive content audit",
                "Develop new assessment frameworks",
                "Create teacher training programs",
                "Implement phased rollout with feedback collection">>,
   high   |-> <<"Complete curriculum restructuring",
                "Develop new content from scratch",
                "Extensive teacher retraining programs",
                "Pilot testing with select schools",
                "Full implementation with ongoing support">>]

resourceMap ==
  [low    |-> <<"Existing teaching materials", "Basic training sessions",
                "Online documentation">>,
   medium |-> <<"New curriculum guides", "Teacher workshops", "Assessment tools",
                "Student materials">>,
   high   |-> <<"Complete curriculum overhaul", "Extensive training programs",
                "New technology platforms", "Ongoing support systems">>]

\* the guidance of a found recommendation; reading a property of undefined
\* throws a TypeError
GuidanceOf(recommendation) ==
  IF recommendation = None THEN Threw
  ELSE LET c == recommendation[1].implementationComplexity
       IN Returned([complexity   |-> complexityMap[c],
                    timeEstimate |-> timeMap[c],
                    steps        |-> stepMap[c],
                    resources    |-> resourceMap[c]])

\* getImplementationGuidance without the `if (!recommendation)` return
getImplementationGuidanceUnguarded(recs, standardId) ==
  GuidanceOf(find(recs, standardId))

getImplementationGuidance(recs, standardId) ==
  LET recommendation == find(recs, standardId)
  IN IF recommendation = None THEN Returned(UnknownGuidance)
     ELSE GuidanceOf(recommendation)

----------------------------------------------------------------------------
(* The inputs the calls are checked on *)

UserContext(location, schoolType, language, gradeLevel, experience, resources) ==
  [location |-> location, schoolType |-> schoolType, language |-> language,
   gradeLevel |-> gradeLevel, teachingExperience |-> experience,
   resourceAvailability |-> resources]

\* "india", "Pune, India", "in", "IN", "usa" and the empty string
Locations ==
  { <<"i","n","d","i","a">>,
    <<"P","u","n","e",","," ","I","n","d","i","a">>,
    <<"i","n">>,
    <<"I","N">>,
    <<"u","s","a">>,
    <<>> }

SchoolTypes == {"government", "private", "international"}
Languages == {"english", "hindi"}

\* no grade, "", "3", "5", "6", "8", "9", "10", "kg" and "9th"
GradeLevels ==
  { None, Some(<<>>), Some(<<"3">>), Some(<<"5">>), Some(<<"6">>), Some(<<"8">>),
    Some(<<"9">>), Some(<<"1","0">>), Some(<<"k","g">>), Some(<<"9","t","h">>) }

TeachingExperiences == {"undefined", "beginner", "intermediate", "expert"}
ResourceAvailabilities == {"undefined", "limited", "moderate", "abundant"}

Contexts ==
  { UserContext(l, t, g, gl, e, r) :
      l \in Locations, t \in SchoolTypes, g \in Languages, gl \in GradeLevels,
      e \in TeachingExperiences, r \in ResourceAvailabilities }

\* the contexts the mounted hook is driven with: the two examples of the
\* specification, an Indian private school for which all six standards pass
\* the threshold, and a location that only looks Indian
HookContexts ==
  { UserContext(<<"i","n","d","i","a">>, "government", "hindi", Some(<<"3">>),
                "undefined", "undefined"),
    UserContext(<<"u","s","a">>, "international", "english", None,
                "undefined", "undefined"),
    UserContext(<<"i","n","d","i","a">>, "private", "english", Some(<<"9">>),
                "expert", "abundant"),
    UserContext(<<"I","N">>, "government", "hindi", None, "beginner", "limited") }

\* the ids the consumer looks up: one national and two international
\* standards and an id that is not in the catalog
LookupIds == {"ncert", "ib", "common-core", "nonexistent-id"}

\* the standards the consumer selects by hand
SelectableStandards == {st \in Standards : st.id \in {"icse", "cambridge"}}

\* results that the lists handed to generateAnalytics are made of
ResultPool ==
  { analyzeStandardFit(st, c) :
      st \in Standards,
      c \in { UserContext(<<"i","n","d","i","a">>, "government", "hindi", Some(<<"3">>),
                          "undefined", "undefined"),
              UserContext(<<"u","s","a">>, "international", "english", None,
                          "undefined", "undefined") } }

RECURSIVE ListsUpTo(_)
ListsUpTo(n) ==
  IF n = 0 THEN { <<>> }
  ELSE LET shorter == ListsUpTo(n - 1)
       IN shorter \cup { Append(l, x) : l \in { k \in shorter : Len(k) = n - 1 },
                                        x \in ResultPool }

----------------------------------------------------------------------------
(* GeminiService: initializeAPI, generateLesson, convertToLessonContent,   *)
(* getAgeRange and getDemoLesson.  A class level such as 'class-10' is the *)
(* sequence <<"class-", "1", "0">>; the text the API answers with is a     *)
(* sequence of pieces, of which the Markdown fences (three backticks, with *)
(* or without json) are pieces of their own, written "fence".             *)

\* what the SDK does under initializeAPI: nothing fails, the constructor of
\* GoogleGenerativeAI throws, or the first or the second getGenerativeModel
\* throws
SdkBehaviours ==
  {"works", "constructor throws", "first getGenerativeModel throws",
   "second getGenerativeModel throws"}

\* import.meta.env.VITE_GEMINI_API_KEY: absent, empty, or a key
ApiKeys == {None, Some(""), Some("key")}

\* the fields of the service after the constructor ran initializeAPI
initializeAPI(apiKey, sdk) ==
  LET unset == [apiKey |-> apiKey, genAI |-> None, model |-> None, globalModel |-> None]
  IN IF apiKey = None \/ apiKey = Some("")
     THEN unset
     ELSE CASE sdk = "constructor throws" -> unset
            [] sdk = "first getGenerativeModel throws" ->
                 [unset EXCEPT !.genAI = Some("GoogleGenerativeAI")]
            [] sdk = "second getGenerativeModel throws" ->
                 [unset EXCEPT !.genAI = Some("GoogleGenerativeAI"),
                               !.model = Some("model")]
            [] OTHER ->
                 [unset EXCEPT !.genAI = Some("GoogleGenerativeAI"),
                               !.model = Some("model"),
                               !.globalModel = Some("globalModel")]

\* s.replace(pattern, ''): s without the first piece equal to pattern
RECURSIVE replaceFirst(_, _)
replaceFirst(s, pattern) ==
  IF s = <<>> THEN <<>>
  ELSE IF s[1] = pattern THEN Tail(s)
       ELSE <<s[1]>> \o replaceFirst(Tail(s), pattern)

\* ageMap[classNumber] || '6-16 years'
getAgeRange(classNumber) ==
  CASE classNumber = <<"1">> -> "6-7 years"
    [] classNumber = <<"2">> -> "7-8 years"
    [] classNumber = <<"3">> -> "8-9 years"
    [] classNumber = <<"4">> -> "9-10 years"
    [] classNumber = <<"5">> -> "10-11 years"
    [] classNumber = <<"6">> -> "11-12 years"
    [] classNumber = <<"7">> -> "12-13 years"
    [] classNumber = <<"8">> -> "13-14 years"
    [] classNumber = <<"9">> -> "14-15 years"
    [] classNumber = <<"1", "0">> -> "15-16 years"
    [] OTHER -> "6-16 years"

\* the demo lesson; nothing in it throws for arguments of the declared types
getDemoLesson(classLevel, subject, topicText, style, isGlobalVersion) ==
  LET classNumber == replaceFirst(classLevel, "class-")
      ageRange    == getAgeRange(classNumber)
  IN Returned([demo            |-> TRUE,
               isGlobalVersion |-> isGlobalVersion,
               lessonData      |-> [lessonTitle |-> <<topicText, classNumber>>,
                                    ageGroup    |-> ageRange,
                                    duration    |-> IF isGlobalVersion
                                                    THEN "25-30 minutes"
                                                    ELSE "20-25 minutes"],
               globalMethod    |-> style])

\* text.replace(/```json\n?|```\n?/g, '').trim()
\* the pieces that the regular expression matches: an opening fence with or
\* without its line break and a closing fence with or without one
Fences == {"fence json\n", "fence json", "fence\n", "fence"}
WhiteSpace == {" ", "\n"}

RECURSIVE trimEnd(_)
trimEnd(s) ==
  IF s # <<>> /\ s[Len(s)] \in WhiteSpace THEN trimEnd(SubSeq(s, 1, Len(s) - 1)) ELSE s

cleanedText(text) ==
  LET IsContent(piece) == piece \notin Fences
  IN trimEnd(SkipWhiteSpace(SelectSeq(text, IsContent)))

\* JSON.parse: the pieces "{lesson}" and "{partial}" stand for a JSON object
\* with all the sections of the prompt and for one that lacks some
JSONparse(text) ==
  IF text = <<"{lesson}">> THEN Returned("lesson")
  ELSE IF text = <<"{partial}">> THEN Returned("partial")
       ELSE Threw

\* convertToLessonContent reads lessonData.introduction.objective and the
\* like: a TypeError when a section is missing
convertToLessonContent(lessonData, isGlobalVersion) ==
  IF lessonData = "lesson"
  THEN Returned([demo |-> FALSE, isGlobalVersion |-> isGlobalVersion,
                 lessonData |-> lessonData, globalMethod |-> "application"])
  ELSE Threw

\* the try block of generateLesson under the answer of the API
TryGenerate(isGlobalVersion, answer) ==
  IF answer.kind # "text"
  THEN Threw
  ELSE LET parsed == JSONparse(cleanedText(answer.text))
       IN IF parsed.threw THEN Threw
          ELSE convertToLessonContent(parsed.value[1], isGlobalVersion)

\* how the promise of an async function settles on a body that returned or threw
Settle(outcome, apiCalled) ==
  [rejected |-> outcome.threw, value |-> outcome.value, apiCalled |-> apiCalled]

\* generateLesson with the conversion moved behind the try block
generateLessonConvertsOutside(svc, classLevel, subject, topicText, style, isGlobalVersion, answer) ==
  LET modelToUse == IF isGlobalVersion THEN svc.globalModel ELSE svc.model
      demoLesson == getDemoLesson(classLevel, subject, topicText, style, isGlobalVersion)
  IN IF modelToUse = None
     THEN Settle(demoLesson, FALSE)
     ELSE IF answer.kind # "text" \/ JSONparse(cleanedText(answer.text)).threw
          THEN Settle(demoLesson, TRUE)
          ELSE Settle(convertToLessonContent(JSONparse(cleanedText(answer.text)).value[1],
                                             isGlobalVersion), TRUE)

\* generateLesson: how the promise it returns settles
generateLesson(svc, classLevel, subject, topicText, style, isGlobalVersion, answer) ==
  LET modelToUse == IF isGlobalVersion THEN svc.globalModel ELSE svc.model
      demoLesson == getDemoLesson(classLevel, subject, topicText, style, isGlobalVersion)
  IN IF modelToUse = None
     THEN Settle(demoLesson, FALSE)
     ELSE LET attempt == TryGenerate(isGlobalVersion, answer)
          IN IF attempt.threw THEN Settle(demoLesson, TRUE) ELSE Settle(attempt, TRUE)

\* the arguments generateLesson is checked on
ClassLevels == { <<"class-", "3">>, <<"class-", "1", "0">>, <<"class-", "1", "2">> }
Subjects == {"mathematics"}
TopicTexts == {"Fractions"}
GlobalStyles == {"japanese", "american"}

\* what the API does with the request: generateContent rejects, the response
\* is blocked so that response.text() throws, or it answers with a text
ApiAnswers ==
  { [kind |-> "generateContent rejects"], [kind |-> "text() throws"] }
    \cup { [kind |-> "text", text |-> t] :
             t \in { <<"fence json\n", "{lesson}", "\n", "fence">>,
                     <<"{lesson}">>,
                     <<"fence json\n", "{partial}", "fence">>,
                     <<"Here is your lesson:", "{lesson}">>,
                     <<>> } }

ServiceIdle == service = initializeAPI(None, "works")

WizardIdle ==
  /\ currentStep = "dashboard"
  /\ selectedClass = None
  /\ selectedSubject = ""
  /\ topic = ""
  /\ globalStyle = ""
  /\ uploadedFiles = <<>>
  /\ lesson = None
  /\ sidebarOpen = FALSE
  /\ sessions = <<>>
  /\ currentSession = None
  /\ inFlight = <<>>

----------------------------------------------------------------------------
(* Specification of the mounted hook *)

NoCall == [fn |-> "none"]

\* a run of generateRecommendations up to its await: setIsAnalyzing(true) and
\* the 1500 ms timer.  kind tells who awaits it: runAnalysis of the effect,
\* which writes the results, or refreshRecommendations, which drops them.
\* noneSelected is `!selectedStandard` of the selectedStandard that the closure
\* of this render captured, the only use runAnalysis makes of it.
StartRun(kind, context) ==
  /\ isAnalyzing' = TRUE
  /\ timers' = Append(timers, [kind |-> kind, context |-> context,
                               noneSelected |-> (selectedStandard = None)])

Init ==
  /\ userContext \in HookContexts
  /\ recommendations = <<>>
  /\ analytics = None
  /\ isAnalyzing = FALSE
  /\ selectedStandard = None
  /\ mounted = FALSE
  /\ timers = <<>>
  /\ shownFor = None
  /\ staleWrite = FALSE
  /\ lookup = None
  /\ call = NoCall
  /\ returned = None
  /\ ServiceIdle
  /\ WizardIdle

\* the effect after the first render
Mount ==
  /\ ~mounted
  /\ mounted' = TRUE
  /\ StartRun("runAnalysis", userContext)
  /\ lookup' = None
  /\ UNCHANGED <<userContext, recommendations, analytics, selectedStandard, shownFor,
                 staleWrite>>
  /\ UNCHANGED <<pureVars, lessonVars>>

\* a render with a new userContext prop and the effect it triggers
ChangeContext(context) ==
  /\ mounted
  /\ Len(timers) < MaxPending
  /\ userContext' = context
  /\ StartRun("runAnalysis", context)
  /\ lookup' = None
  /\ UNCHANGED <<recommendations, analytics, selectedStandard, mounted, shownFor,
                 staleWrite>>
  /\ UNCHANGED <<pureVars, lessonVars>>

\* refreshRecommendations: () => generateRecommendations(userContext)
refreshRecommendations ==
  /\ mounted
  /\ Len(timers) < MaxPending
  /\ StartRun("refresh", userContext)
  /\ lookup' = None
  /\ UNCHANGED <<userContext, recommendations, analytics, selectedStandard, mounted,
                 shownFor, staleWrite>>
  /\ UNCHANGED <<pureVars, lessonVars>>

\* a run of the effect for another context is waiting when run completes
NewerRunWaits(run, waiting) ==
  \E i \in 1..Len(waiting) :
    waiting[i].kind = "runAnalysis" /\ waiting[i].context # run.context

\* FiringIndex choosing the timer that was set last
FiringIndexNewest(waiting) == Len(waiting)

\* which of the waiting timers fires next: all are set with the same delay of
\* 1500 ms, and timers of equal delay fire in the order they were set
FiringIndex(waiting) == 1

\* the waiting timers without the one at index i
WithoutTimer(waiting, i) ==
  SubSeq(waiting, 1, i - 1) \o SubSeq(waiting, i + 1, Len(waiting))

\* TimerFires with the analytics written only while none are held
\* (`if (!analytics) setAnalytics(...)`)
TimerFiresKeepsAnalytics ==
  /\ timers # <<>>
  /\ LET run     == timers[FiringIndex(timers)]
         waiting == WithoutTimer(timers, FiringIndex(timers))
         results == generateRecommendations(run.context)
         stats   == generateAnalytics(results)
     IN /\ timers' = waiting
        /\ isAnalyzing' = FALSE
        /\ IF run.kind = "runAnalysis"
           THEN /\ recommendations' = results
                /\ shownFor' = Some(run.context)
                /\ staleWrite' = (staleWrite \/ NewerRunWaits(run, waiting))
                /\ IF stats.threw
                   THEN UNCHANGED <<analytics, selectedStandard>>
                   ELSE /\ analytics' = IF analytics = None THEN stats.value ELSE analytics
                        /\ IF Len(results) > 0 /\ run.noneSelected
                           THEN selectedStandard' = Some(results[1].standard)
                           ELSE UNCHANGED selectedStandard
           ELSE UNCHANGED <<recommendations, shownFor, staleWrite, analytics, selectedStandard>>
  /\ lookup' = None
  /\ UNCHANGED <<userContext, mounted>>
  /\ UNCHANGED <<pureVars, lessonVars>>

\* the next timer fires and its run continues to the end: the rest of generateRecommendations and,
\* for runAnalysis, the three state writes
TimerFires ==
  /\ timers # <<>>
  /\ LET run     == timers[FiringIndex(timers)]
         waiting == WithoutTimer(timers, FiringIndex(timers))
         results == generateRecommendations(run.context)
         stats   == generateAnalytics(results)
     IN /\ timers' = waiting
        /\ isAnalyzing' = FALSE
        /\ IF run.kind = "runAnalysis"
           THEN /\ recommendations' = results
                /\ shownFor' = Some(run.context)
                /\ staleWrite' = (staleWrite \/ NewerRunWaits(run, waiting))
                /\ IF stats.threw
                   THEN UNCHANGED <<analytics, selectedStandard>>
                   ELSE /\ analytics' = stats.value
                        /\ IF Len(results) > 0 /\ run.noneSelected
                           THEN selectedStandard' = Some(results[1].standard)
                           ELSE UNCHANGED selectedStandard
           ELSE UNCHANGED <<recommendations, shownFor, staleWrite, analytics, selectedStandard>>
  /\ lookup' = None
  /\ UNCHANGED <<userContext, mounted>>
  /\ UNCHANGED <<pureVars, lessonVars>>

selectStandard(standard) ==
  /\ selectedStandard' = Some(standard)
  /\ lookup' = None
  /\ UNCHANGED <<userContext, recommendations, analytics, isAnalyzing, mounted, timers,
                 shownFor, staleWrite>>
  /\ UNCHANGED <<pureVars, lessonVars>>

\* a call of getRecommendationReasoning(standardId) by the consumer
LookupReasoning(standardId) ==
  /\ lookup' = Some([fn |-> "getRecommendationReasoning", standardId |-> standardId,
                     result |-> getRecommendationReasoning(recommendations, standardId)])
  /\ UNCHANGED <<userContext, recommendations, analytics, isAnalyzing, selectedStandard,
                 mounted, timers, shownFor, staleWrite>>
  /\ UNCHANGED <<pureVars, lessonVars>>

\* a call of getImplementationGuidance(standardId) by the consumer
LookupGuidance(standardId) ==
  /\ lookup' = Some([fn |-> "getImplementationGuidance", standardId |-> standardId,
                     result |-> getImplementationGuidance(recommendations, standardId)])
  /\ UNCHANGED <<userContext, recommendations, analytics, isAnalyzing, selectedStandard,
                 mounted, timers, shownFor, staleWrite>>
  /\ UNCHANGED <<pureVars, lessonVars>>

Next ==
  \/ Mount
  \/ \E context \in HookContexts : ChangeContext(context)
  \/ refreshRecommendations
  \/ TimerFires
  \/ \E standard \in SelectableStandards : selectStandard(standard)
  \/ \E standardId \in LookupIds : LookupReasoning(standardId)
  \/ \E standardId \in LookupIds : LookupGuidance(standardId)

Spec == Init /\ [][Next]_vars

\* every timer that was set fires
FairSpec == Spec /\ WF_vars(TimerFires) /\ WF_vars(Mount)

----------------------------------------------------------------------------
(* Specification of single calls of analyzeStandardFit and of the          *)
(* synchronous part of generateRecommendations, over all contexts          *)

HookIdle ==
  /\ userContext = CHOOSE c \in HookContexts : TRUE
  /\ recommendations = <<>>
  /\ analytics = None
  /\ isAnalyzing = FALSE
  /\ selectedStandard = None
  /\ mounted = FALSE
  /\ timers = <<>>
  /\ shownFor = None
  /\ staleWrite = FALSE
  /\ lookup = None

InitFit ==
  /\ HookIdle
  /\ ServiceIdle
  /\ WizardIdle
  /\ call \in { [fn |-> "none", context |-> c] : c \in Contexts }
  /\ returned = None

CallAnalyzeStandardFit(standard) ==
  /\ call.fn = "none"
  /\ call' = [fn |-> "analyzeStandardFit", context |-> call.context,
              standard |-> standard]
  /\ returned' = Some(analyzeStandardFit(standard, call.context))
  /\ UNCHANGED <<hookVars, lessonVars>>

CallGenerateRecommendations ==
  /\ call.fn = "none"
  /\ call' = [fn |-> "generateRecommendations", context |-> call.context]
  /\ returned' = Some(generateRecommendations(call.context))
  /\ UNCHANGED <<hookVars, lessonVars>>

\* the synchronous part of the selector's generateRecommendations, with the
\* props taken from the context
CallSelectorRecommendations ==
  /\ call.fn = "none"
  /\ call' = [fn |-> "contextualRecommendations", context |-> call.context]
  /\ returned' = Some(contextualRecommendations(call.context))
  /\ UNCHANGED <<hookVars, lessonVars>>

NextFit ==
  \/ \E standard \in Standards : CallAnalyzeStandardFit(standard)
  \/ CallGenerateRecommendations
  \/ CallSelectorRecommendations

SpecFit == InitFit /\ [][NextFit]_vars

----------------------------------------------------------------------------
(* Specification of single calls of generateAnalytics over result lists *)

InitAnalytics ==
  /\ HookIdle
  /\ ServiceIdle
  /\ WizardIdle
  /\ call \in { [fn |-> "none", recommendations |-> l] : l \in ListsUpTo(MaxResults) }
  /\ returned = None

CallGenerateAnalytics ==
  /\ call.fn = "none"
  /\ call' = [fn |-> "generateAnalytics", recommendations |-> call.recommendations]
  /\ returned' = Some(generateAnalytics(call.recommendations))
  /\ UNCHANGED <<hookVars, lessonVars>>

NextAnalytics == CallGenerateAnalytics

SpecAnalytics == InitAnalytics /\ [][NextAnalytics]_vars

----------------------------------------------------------------------------
(* Specification of single calls of geminiService.generateLesson under     *)
(* every outcome of the constructor                                        *)

InitGemini ==
  /\ HookIdle
  /\ WizardIdle
  /\ service \in { initializeAPI(k, sdk) : k \in ApiKeys, sdk \in SdkBehaviours }
  /\ call = NoCall
  /\ returned = None

CallGenerateLesson(classLevel, subject, topicText, style, isGlobalVersion, answer) ==
  /\ call' = [fn |-> "generateLesson", classLevel |-> classLevel, subject |-> subject,
              topic |-> topicText, globalStyle |-> style,
              isGlobalVersion |-> isGlobalVersion, answer |-> answer]
  /\ returned' = Some(generateLesson(service, classLevel, subject, topicText, style,
                                     isGlobalVersion, answer))
  /\ UNCHANGED <<hookVars, lessonVars>>

NextGemini ==
  \E classLevel \in ClassLevels, subject \in Subjects, topicText \in TopicTexts,
     style \in GlobalStyles, isGlobalVersion \in BOOLEAN, answer \in ApiAnswers :
    CallGenerateLesson(classLevel, subject, topicText, style, isGlobalVersion, answer)

SpecGemini == InitGemini /\ [][NextGemini]_vars

----------------------------------------------------------------------------
(* The lesson wizard of App.  A handler can be called from the component   *)
(* that renderCurrentStep shows for the current step, and the handlers of  *)
(* the ChatSidebar while the sidebar is open.  A File is its name.  The    *)
(* hooks useChatSessions and useGemini are collaborators: a session is a   *)
(* record kept in `sessions` under its index, and a lesson request settles *)
(* later, with a lesson for the arguments it was made with or with an      *)
(* error.                                                                  *)

\* what the user can enter at the steps
Classes == {5, 9}
FileLists == { <<>>, <<"notes.txt">>, <<"map.png", "notes.txt">> }

\* useChatSessions.createSession: a new, empty session becomes the current one
NewSession ==
  [class |-> None, subject |-> None, topic |-> None, globalStyle |-> None,
   lesson |-> None, files |-> None, submitted |-> None]

createSession ==
  /\ sessions' = Append(sessions, NewSession)
  /\ currentSession' = Some(Len(sessions) + 1)

\* useChatSessions.updateSession(id, updates)
updateSession(all, id, updates) ==
  [all EXCEPT ![id] = updates]

\* useChatSessions.selectSession, from the list of the sidebar
selectSession(id) ==
  /\ sidebarOpen
  /\ currentSession' = Some(id)
  /\ UNCHANGED <<currentStep, selectedClass, selectedSubject, topic, globalStyle,
                 uploadedFiles, lesson, sidebarOpen, sessions, inFlight>>
  /\ UNCHANGED <<hookVars, pureVars, service>>

\* onOpenSidebar of the Dashboard
OpenSidebar ==
  /\ currentStep = "dashboard"
  /\ sidebarOpen' = TRUE
  /\ UNCHANGED <<currentStep, selectedClass, selectedSubject, topic, globalStyle,
                 uploadedFiles, lesson, sessions, currentSession, inFlight>>
  /\ UNCHANGED <<hookVars, pureVars, service>>

\* onClose of the ChatSidebar
CloseSidebar ==
  /\ sidebarOpen
  /\ sidebarOpen' = FALSE
  /\ UNCHANGED <<currentStep, selectedClass, selectedSubject, topic, globalStyle,
                 uploadedFiles, lesson, sessions, currentSession, inFlight>>
  /\ UNCHANGED <<hookVars, pureVars, service>>

\* onStartNewLesson of the Dashboard and onNewSession of the ChatSidebar
handleStartNewLesson ==
  /\ currentStep = "dashboard" \/ sidebarOpen
  /\ Len(sessions) < MaxSessions
  /\ createSession
  /\ currentStep' = "class-selection"
  /\ selectedClass' = None
  /\ selectedSubject' = ""
  /\ topic' = ""
  /\ globalStyle' = ""
  /\ uploadedFiles' = <<>>
  /\ lesson' = None
  /\ UNCHANGED <<sidebarOpen, inFlight>>
  /\ UNCHANGED <<hookVars, pureVars, service>>

handleClassSelect(classNumber) ==
  /\ currentStep = "class-selection"
  /\ selectedClass' = Some(classNumber)
  /\ currentStep' = "subject-selection"
  /\ UNCHANGED <<selectedSubject, topic, globalStyle, uploadedFiles, lesson,
                 sidebarOpen, sessions, currentSession, inFlight>>
  /\ UNCHANGED <<hookVars, pureVars, service>>

handleSubjectSelect(subject) ==
  /\ currentStep = "subject-selection"
  /\ selectedSubject' = subject
  /\ currentStep' = "topic-input"
  /\ UNCHANGED <<selectedClass, topic, globalStyle, uploadedFiles, lesson,
                 sidebarOpen, sessions, currentSession, inFlight>>
  /\ UNCHANGED <<hookVars, pureVars, service>>

handleTopicSubmit(topicText) ==
  /\ currentStep = "topic-input"
  /\ topic' = topicText
  /\ currentStep' = "global-style-selection"
  /\ UNCHANGED <<selectedClass, selectedSubject, globalStyle, uploadedFiles, lesson,
                 sidebarOpen, sessions, currentSession, inFlight>>
  /\ UNCHANGED <<hookVars, pureVars, service>>

handleStyleSelect(style) ==
  /\ currentStep = "global-style-selection"
  /\ globalStyle' = style
  /\ currentStep' = "upload-area"
  /\ UNCHANGED <<selectedClass, selectedSubject, topic, uploadedFiles, lesson,
                 sidebarOpen, sessions, currentSession, inFlight>>
  /\ UNCHANGED <<hookVars, pureVars, service>>

\* the request that handleGenerateLesson makes and awaits.  The handler is
\* the one of the render that is on screen, so selectedClass, selectedSubject,
\* topic, globalStyle, uploadedFiles and currentSession are the state of that
\* render; `submitted` records what the user handed to handleFilesUpload
\* (None when the upload was skipped).
LessonRequest(submitted) ==
  [api         |-> IF Len(uploadedFiles) > 0 THEN "analyzeContent" ELSE "generateLesson",
   file        |-> IF Len(uploadedFiles) > 0 THEN Some(uploadedFiles[1]) ELSE None,
   class       |-> selectedClass[1],
   subject     |-> selectedSubject,
   topic       |-> topic,
   globalStyle |-> globalStyle,
   files       |-> uploadedFiles,
   session     |-> currentSession,
   submitted   |-> submitted]

\* handleGenerateLesson up to its await
handleGenerateLesson(submitted) ==
  IF selectedClass = None \/ selectedClass = Some(0) \/ selectedSubject = "" \/ topic = ""
  THEN UNCHANGED <<currentStep, inFlight>>
  ELSE /\ currentStep' = "loading"
       /\ inFlight' = Append(inFlight, LessonRequest(submitted))

handleFilesUpload(files) ==
  /\ currentStep = "upload-area"
  /\ Len(inFlight) < MaxInFlight
  /\ uploadedFiles' = files
  /\ handleGenerateLesson(Some(files))
  /\ UNCHANGED <<selectedClass, selectedSubject, topic, globalStyle, lesson,
                 sidebarOpen, sessions, currentSession>>
  /\ UNCHANGED <<hookVars, pureVars, service>>

handleSkipUpload ==
  /\ currentStep = "upload-area"
  /\ Len(inFlight) < MaxInFlight
  /\ uploadedFiles' = <<>>
  /\ handleGenerateLesson(None)
  /\ UNCHANGED <<selectedClass, selectedSubject, topic, globalStyle, lesson,
                 sidebarOpen, sessions, currentSession>>
  /\ UNCHANGED <<hookVars, pureVars, service>>

\* the lesson that analyzeContent or generateLesson resolves to
LessonFor(request) ==
  [api |-> request.api, file |-> request.file, class |-> request.class,
   subject |-> request.subject, topic |-> request.topic,
   globalStyle |-> request.globalStyle]

\* the awaited request i resolves and handleGenerateLesson runs to its end
RequestResolves(i) ==
  /\ i \in 1..Len(inFlight)
  /\ LET request    == inFlight[i]
         lessonData == LessonFor(request)
     IN /\ inFlight' = WithoutTimer(inFlight, i)
        /\ lesson' = Some(lessonData)
        /\ IF request.session # None
           THEN sessions' = updateSession(sessions, request.session[1],
                              [class       |-> Some(request.class),
                               subject     |-> Some(request.subject),
                               topic       |-> Some(request.topic),
                               globalStyle |-> Some(request.globalStyle),
                               lesson      |-> Some(lessonData),
                               files       |-> Some(request.files),
                               submitted   |-> request.submitted])
           ELSE UNCHANGED sessions
        /\ currentStep' = "lesson-player"
  /\ UNCHANGED <<selectedClass, selectedSubject, topic, globalStyle, uploadedFiles,
                 sidebarOpen, currentSession>>
  /\ UNCHANGED <<hookVars, pureVars, service>>

\* the awaited request i rejects: the catch block
RequestRejects(i) ==
  /\ i \in 1..Len(inFlight)
  /\ inFlight' = WithoutTimer(inFlight, i)
  /\ currentStep' = "error"
  /\ UNCHANGED <<selectedClass, selectedSubject, topic, globalStyle, uploadedFiles,
                 lesson, sidebarOpen, sessions, currentSession>>
  /\ UNCHANGED <<hookVars, pureVars, service>>

\* onRetry of the ErrorScreen
handleRetry ==
  /\ currentStep = "error"
  /\ currentStep' = "dashboard"
  /\ UNCHANGED <<selectedClass, selectedSubject, topic, globalStyle, uploadedFiles,
                 lesson, sidebarOpen, sessions, currentSession, inFlight>>
  /\ UNCHANGED <<hookVars, pureVars, service>>

\* onBackToDashboard of the LessonPlayer
handleBackToDashboard ==
  /\ currentStep = "lesson-player"
  /\ currentStep' = "dashboard"
  /\ UNCHANGED <<selectedClass, selectedSubject, topic, globalStyle, uploadedFiles,
                 lesson, sidebarOpen, sessions, currentSession, inFlight>>
  /\ UNCHANGED <<hookVars, pureVars, service>>

InitWizard ==
  /\ HookIdle
  /\ ServiceIdle
  /\ WizardIdle
  /\ call = NoCall
  /\ returned = None

NextWizard ==
  \/ OpenSidebar
  \/ CloseSidebar
  \/ \E id \in 1..Len(sessions) : selectSession(id)
  \/ handleStartNewLesson
  \/ \E classNumber \in Classes : handleClassSelect(classNumber)
  \/ \E subject \in Subjects : handleSubjectSelect(subject)
  \/ \E topicText \in TopicTexts : handleTopicSubmit(topicText)
  \/ \E style \in GlobalStyles : handleStyleSelect(style)
  \/ \E files \in FileLists : handleFilesUpload(files)
  \/ handleSkipUpload
  \/ \E i \in 1..MaxInFlight : RequestResolves(i)
  \/ \E i \in 1..MaxInFlight : RequestRejects(i)
  \/ handleRetry
  \/ handleBackToDashboard

SpecWizard == InitWizard /\ [][NextWizard]_vars

----------------------------------------------------------------------------
(* Properties of analyzeStandardFit and generateRecommendations (SpecFit)  *)

Composite(rec) == rec.confidence + priorityWeight[rec.priority]

ScoreReturned == call.fn = "analyzeStandardFit" /\ returned # None
RecommendReturned == call.fn = "generateRecommendations" /\ returned # None

\* number of entries of the result list recs that are for the standard st
Occurrences(recs, st) == Cardinality({i \in 1..Len(recs) : recs[i].standard = st})

\* C1: for every standard of the catalog and every context, the confidence
\* that analyzeStandardFit returns is an integer between 0 and 100 inclusive.
C1_ConfidenceInRange ==
  ScoreReturned => returned[1].confidence \in 0..100

\* a call in which every rule contributes and the confidence reaches 100
C1_Witness ==
  /\ ScoreReturned
  /\ returned[1].confidence = 100
  /\ Len(returned[1].reasons) = 6

\* C2: the list generateRecommendations resolves to is in descending order of
\* confidence + priorityWeight[priority]: every element's composite score is
\* at least that of the element after it.
C2_SortedByComposite ==
  RecommendReturned =>
    \A i \in 1..(Len(returned[1]) - 1) :
      Composite(returned[1][i]) >= Composite(returned[1][i + 1])

\* a list of all six standards in which the sort moved a later standard of
\* the catalog in front of ncert
C2_Witness ==
  /\ RecommendReturned
  /\ Len(returned[1]) = 6
  /\ returned[1][1].standard.id # "ncert"
  /\ Composite(returned[1][1]) > Composite(returned[1][6])

\* C3: a catalog standard is in the list generateRecommendations resolves to
\* exactly when its confidence is at least 30, it is there once, and the
\* entry is the result analyzeStandardFit gave for it.
C3_ThresholdFilter ==
  RecommendReturned =>
    /\ \A st \in Standards :
         Occurrences(returned[1], st) =
           IF analyzeStandardFit(st, call.context).confidence >= 30 THEN 1 ELSE 0
    /\ \A i \in 1..Len(returned[1]) :
         /\ returned[1][i].standard \in Standards
         /\ returned[1][i] = analyzeStandardFit(returned[1][i].standard, call.context)
         /\ returned[1][i].confidence >= 30

\* a list that keeps a standard scoring exactly 30 and drops another standard
C3_Witness ==
  /\ RecommendReturned
  /\ \E i \in 1..Len(returned[1]) : returned[1][i].confidence = 30
  /\ \E st \in Standards : Occurrences(returned[1], st) = 0

\* C7: for every context whose location indicates India and whose school
\* type is government, whatever the language, grade, teaching experience and
\* resource availability, generateRecommendations puts ncert at position 0
\* with priority primary.
C7_NcertFirstForIndianGovernment ==
  (/\ RecommendReturned
   /\ IndicatesIndia(call.context.location)
   /\ call.context.schoolType = "government")
  => /\ returned[1] # <<>>
     /\ returned[1][1].standard.id = "ncert"
     /\ returned[1][1].priority = "primary"

\* the example {location: india, schoolType: government, language: hindi,
\* gradeLevel: 3} has been ranked, ncert first
C7_Witness ==
  /\ RecommendReturned
  /\ call.context = UserContext(<<"i","n","d","i","a">>, "government", "hindi",
                                Some(<<"3">>), "undefined", "undefined")
  /\ returned[1][1].standard.id = "ncert"

\* C8: for every context whose location does not indicate India and whose
\* school type is international, the list of generateRecommendations has ib
\* or cambridge at a position before every national-region standard in it.
C8_InternationalAboveNational ==
  (/\ RecommendReturned
   /\ ~IndicatesIndia(call.context.location)
   /\ call.context.schoolType = "international")
  => \E i \in 1..Len(returned[1]) :
       /\ returned[1][i].standard.id \in {"ib", "cambridge"}
       /\ \A j \in 1..Len(returned[1]) :
            returned[1][j].standard.region = "national" => i < j

\* an international school outside India whose list also holds a national
\* standard, behind ib
C8_Witness ==
  /\ RecommendReturned
  /\ call.context.location = <<"u","s","a">>
  /\ call.context.schoolType = "international"
  /\ \E j \in 1..Len(returned[1]) : returned[1][j].standard.region = "national"
  /\ returned[1][1].standard.id = "ib"


\* position of a standard in the concatenated catalog
CatalogIndex(st) == CHOOSE k \in 1..Len(allStandards) : allStandards[k] = st

\* C14: results of generateRecommendations with equal composite score
\* confidence + priorityWeight[priority] appear in catalog order (ncert,
\* cbse, icse, ib, cambridge, common-core): the sort is stable.
C14_TiesInCatalogOrder ==
  RecommendReturned =>
    \A i, j \in 1..Len(returned[1]) :
      (i < j /\ Composite(returned[1][i]) = Composite(returned[1][j]))
        => CatalogIndex(returned[1][i].standard) < CatalogIndex(returned[1][j].standard)

\* a list in which ncert and cbse have the same composite score and a
\* standard with a higher score was moved in front of them
C14_Witness ==
  /\ RecommendReturned
  /\ \E i \in 2..(Len(returned[1]) - 1) :
       /\ returned[1][i].standard.id = "ncert"
       /\ returned[1][i + 1].standard.id = "cbse"
       /\ Composite(returned[1][i]) = Composite(returned[1][i + 1])
       /\ Composite(returned[1][1]) > Composite(returned[1][i])

\* C16: the priority analyzeStandardFit returns depends on location and
\* region only: with a location that indicates India it is primary for a
\* national standard and secondary for any other; otherwise it is primary
\* for an international standard and alternative for a national one.
C16_PriorityFromLocationAndRegion ==
  ScoreReturned =>
    returned[1].priority =
      IF IndicatesIndia(call.context.location)
      THEN IF call.standard.region = "national" THEN "primary" ELSE "secondary"
      ELSE IF call.standard.region = "international" THEN "primary" ELSE "alternative"

\* ib scored for an international school in India, where the school-type
\* rule fires after the geographic rule and the priority stays secondary
C16_Witness ==
  /\ ScoreReturned
  /\ call.standard.id = "ib"
  /\ call.context.schoolType = "international"
  /\ IndicatesIndia(call.context.location)
  /\ Len(returned[1].reasons) >= 2
  /\ returned[1].priority = "secondary"

\* C17: the implementationComplexity analyzeStandardFit returns is the last
\* value a firing rule wrote, medium if none did: a national standard is low
\* when the location indicates India, or the teacher is a beginner and the
\* id is ncert, or resources are limited, and medium otherwise; an
\* international standard is high when the location indicates India, or the
\* school is international and the id is ib or cambridge, and medium otherwise.
C17_ComplexityByLastWrite ==
  ScoreReturned =>
    returned[1].implementationComplexity =
      IF call.standard.region = "national"
      THEN IF \/ IndicatesIndia(call.context.location)
              \/ (call.context.teachingExperience = "beginner" /\ call.standard.id = "ncert")
              \/ call.context.resourceAvailability = "limited"
           THEN "low" ELSE "medium"
      ELSE IF \/ IndicatesIndia(call.context.location)
              \/ (call.context.schoolType = "international"
                    /\ call.standard.id \in {"ib", "cambridge"})
           THEN "high" ELSE "medium"

\* a national standard outside India made low by the resource rule alone
C17_Witness ==
  /\ ScoreReturned
  /\ call.standard.id = "icse"
  /\ ~IndicatesIndia(call.context.location)
  /\ call.context.resourceAvailability = "limited"
  /\ returned[1].implementationComplexity = "low"

\* the grade of the context is given and either parseInt makes no number of
\* it or the number is between 6 and 8
GradeWithoutEffect(context) ==
  /\ context.gradeLevel # None
  /\ LET gradeNum == parseInt(context.gradeLevel[1])
     IN gradeNum = None \/ (gradeNum[1] >= 6 /\ gradeNum[1] <= 8)

\* C18: for a grade string that does not parse to an integer, and for a
\* grade between 6 and 8, the grade rule does not fire: analyzeStandardFit
\* returns the same confidence, reasons, priority, complexity and outcomes
\* as for the same context without a grade.
C18_MalformedGradeIgnored ==
  (ScoreReturned /\ GradeWithoutEffect(call.context)) =>
    LET without == analyzeStandardFit(call.standard,
                                      [call.context EXCEPT !.gradeLevel = None])
    IN /\ returned[1].confidence = without.confidence
       /\ returned[1].reasons = without.reasons
       /\ returned[1].priority = without.priority
       /\ returned[1].implementationComplexity = without.implementationComplexity
       /\ returned[1].expectedOutcomes = without.expectedOutcomes

\* ncert scored for the grade "kg", without a grade reason
C18_Witness ==
  /\ ScoreReturned
  /\ call.standard.id = "ncert"
  /\ call.context.gradeLevel = Some(<<"k","g">>)
  /\ call.context.schoolType = "private"
  /\ call.context.language = "english"
  /\ call.context.teachingExperience = "undefined"
  /\ call.context.resourceAvailability = "undefined"
  /\ Len(returned[1].reasons) <= 1

----------------------------------------------------------------------------
(* Properties of the mounted hook (Spec) *)

\* the hook has run its effect and no run is waiting on its timer
Quiescent == mounted /\ timers = <<>>

\* C4: when the context changes while an earlier run is still waiting on its
\* delay, both runs go on to write their results, and once every run in
\* flight has completed the shown recommendations and analytics are those
\* computed for the most recent context: a stale result is never the final one.
C4_LastWriteWins ==
  Quiescent =>
    /\ shownFor = Some(userContext)
    /\ recommendations = generateRecommendations(userContext)
    /\ analytics = generateAnalytics(generateRecommendations(userContext)).value

\* two runs for different contexts overlapped, the stale one wrote its
\* results first, and all runs have completed
C4_Witness ==
  /\ Quiescent
  /\ staleWrite
  /\ recommendations = generateRecommendations(userContext)

InRecommendations(standardId) ==
  \E i \in 1..Len(recommendations) : recommendations[i].standard.id = standardId

\* C9: a lookup by an id that is not in the most recent result set does not
\* throw and returns the sentinel: the empty list for
\* getRecommendationReasoning, the 'Unknown' guidance object for
\* getImplementationGuidance; also before any run has completed.
C9_LookupSentinels ==
  (lookup # None /\ ~InRecommendations(lookup[1].standardId)) =>
    /\ ~lookup[1].result.threw
    /\ lookup[1].fn = "getRecommendationReasoning" =>
         lookup[1].result.value = Some(<<>>)
    /\ lookup[1].fn = "getImplementationGuidance" =>
         lookup[1].result.value =
           Some([complexity |-> "Unknown", timeEstimate |-> "Not available",
                 steps |-> <<>>, resources |-> <<>>])

\* guidance was asked for a catalog standard that the threshold filtered out
\* of a non-empty result set
C9_Witness ==
  /\ lookup # None
  /\ lookup[1].fn = "getImplementationGuidance"
  /\ lookup[1].standardId = "ib"
  /\ recommendations # <<>>
  /\ ~InRecommendations("ib")

\* rule k of analyzeStandardFit applied on its own to the initial locals
RuleAlone(k, standard, context) ==
  CASE k = 1 -> GeographicRule(InitialFit, standard, context)
    [] k = 2 -> SchoolTypeRule(InitialFit, standard, context)
    [] k = 3 -> LanguageRule(InitialFit, standard, context)
    [] k = 4 -> GradeLevelRule(InitialFit, standard, context)
    [] k = 5 -> TeachingExperienceRule(InitialFit, standard, context)
    [] k = 6 -> ResourceAvailabilityRule(InitialFit, standard, context)

\* the reasons of the rules k..6 that fire, in rule order
RECURSIVE ReasonsInRuleOrder(_, _, _)
ReasonsInRuleOrder(k, standard, context) ==
  IF k > 6 THEN <<>>
  ELSE RuleAlone(k, standard, context).reasons
         \o ReasonsInRuleOrder(k + 1, standard, context)

StandardById(standardId) == CHOOSE st \in Standards : st.id = standardId

\* C10: for an id present in the shown result set, getRecommendationReasoning
\* returns exactly the reasons of the rules that fired for that standard
\* under the context of the run that produced the set, one per rule, in the
\* order geographic, school type, language, grade, experience, resource.
C10_ReasoningInRuleOrder ==
  (/\ lookup # None
   /\ lookup[1].fn = "getRecommendationReasoning"
   /\ InRecommendations(lookup[1].standardId))
  => /\ shownFor # None
     /\ ~lookup[1].result.threw
     /\ lookup[1].result.value =
          Some(ReasonsInRuleOrder(1, StandardById(lookup[1].standardId), shownFor[1]))
     /\ \A k \in 1..6 :
          LET alone == RuleAlone(k, StandardById(lookup[1].standardId), shownFor[1])
          IN Len(alone.reasons) = IF alone.confidence > 0 THEN 1 ELSE 0

\* the reasons of ncert were asked after the run for the Indian government
\* school: geographic, school type, language and grade fired
C10_Witness ==
  /\ lookup # None
  /\ lookup[1].fn = "getRecommendationReasoning"
  /\ lookup[1].standardId = "ncert"
  /\ InRecommendations("ncert")
  /\ Len(lookup[1].result.value[1]) = 4


\* C15: the hook is analyzing for as long as a run of the effect is in
\* flight: isAnalyzing is never false while the run started for the latest
\* context, or any other run of the effect, is still waiting on its timer.
C15_AnalyzingWhileInFlight ==
  (\E i \in 1..Len(timers) : timers[i].kind = "runAnalysis") => isAnalyzing

\* the shown result for the standard id
ShownResult(standardId) ==
  recommendations[CHOOSE i \in 1..Len(recommendations) :
                    recommendations[i].standard.id = standardId]

\* C19: for an id present in the shown result set, getImplementationGuidance
\* returns the label, time estimate, steps and resources that the fixed
\* tables give for that result's implementationComplexity; every table has
\* the three tiers low, medium and high, no field is undefined and steps and
\* resources are not empty.
C19_GuidanceFromTables ==
  (/\ lookup # None
   /\ lookup[1].fn = "getImplementationGuidance"
   /\ InRecommendations(lookup[1].standardId))
  => /\ ~lookup[1].result.threw
     /\ LET c == ShownResult(lookup[1].standardId).implementationComplexity
            g == lookup[1].result.value[1]
        IN /\ c \in {"low", "medium", "high"}
           /\ \A table \in {complexityMap, timeMap, stepMap, resourceMap} :
                DOMAIN table = {"low", "medium", "high"}
           /\ g.complexity = CASE c = "low"    -> "Low - Minimal changes required"
                               [] c = "medium" -> "Medium - Moderate integration effort"
                               [] c = "high"   -> "High - Significant restructuring needed"
           /\ g.timeEstimate = CASE c = "low"    -> "1-2 weeks"
                                 [] c = "medium" -> "3-4 weeks"
                                 [] c = "high"   -> "6-8 weeks"
           /\ g.steps = stepMap[c]
           /\ g.resources = resourceMap[c]
           /\ Len(g.steps) = CASE c = "low" -> 3 [] c = "medium" -> 4 [] c = "high" -> 5
           /\ Len(g.resources) = CASE c = "low" -> 3 [] c = "medium" -> 4 [] c = "high" -> 4

\* guidance was asked for ib, of high complexity, while the top result of
\* the shown set is of low complexity
C19_Witness ==
  /\ lookup # None
  /\ lookup[1].fn = "getImplementationGuidance"
  /\ lookup[1].standardId = "ib"
  /\ InRecommendations("ib")
  /\ recommendations[1].implementationComplexity = "low"
  /\ lookup[1].result.value[1].complexity = "High - Significant restructuring needed"

\* C20: once a run has written its results, the held analytics are those of
\* the shown recommendations: analytics = generateAnalytics(recommendations),
\* and totalRecommendations is the number of shown recommendations.
C20_AnalyticsOfShown ==
  shownFor # None =>
    /\ analytics # None
    /\ analytics = generateAnalytics(recommendations).value
    /\ analytics[1].totalRecommendations = Len(recommendations)

\* the shown set was replaced by that of another context and the analytics
\* count its six results
C20_Witness ==
  /\ staleWrite
  /\ analytics # None
  /\ Len(recommendations) = 6
  /\ analytics[1].totalRecommendations = 6

----------------------------------------------------------------------------
(* Properties of generateAnalytics (SpecAnalytics) *)

AnalyticsCalled == call.fn = "generateAnalytics" /\ returned # None

\* number of results of recs in the category
CountIn(recs, category) ==
  Cardinality({i \in 1..Len(recs) : CategoryOf(recs[i]) = category})

OtherCategory(category) == IF category = "Indian" THEN "International" ELSE "Indian"

\* C5: generateAnalytics applied to the empty list does not throw and returns
\* an analytics object with totalRecommendations = 0 and averageConfidence = 0.
C5_EmptyListDefaulted ==
  (AnalyticsCalled /\ call.recommendations = <<>>) =>
    /\ ~returned[1].threw
    /\ returned[1].value[1].totalRecommendations = 0
    /\ returned[1].value[1].averageConfidence = [num |-> 0, den |-> 1]

\* C6: topCategory is the category (Indian for region national, International
\* otherwise) with more results and, on equal counts, the category that was
\* encountered first while iterating the list, that of results[0].
C6_TieFirstEncountered ==
  (AnalyticsCalled /\ call.recommendations # <<>>) =>
    /\ ~returned[1].threw
    /\ LET recs == call.recommendations
           top  == returned[1].value[1].topCategory
       IN /\ CountIn(recs, top) >= CountIn(recs, OtherCategory(top))
          /\ CountIn(recs, top) = CountIn(recs, OtherCategory(top))
               => top = CategoryOf(recs[1])

\* sum of the confidences of recs[1..n]
RECURSIVE ConfidenceTotal(_, _)
ConfidenceTotal(recs, n) ==
  IF n = 0 THEN 0 ELSE ConfidenceTotal(recs, n - 1) + recs[n].confidence

AnalyticsOfNonEmpty ==
  AnalyticsCalled /\ call.recommendations # <<>> /\ ~returned[1].threw

\* C11: for every non-empty result list, averageConfidence is the sum of the
\* member confidences divided by the number of results, and
\* totalRecommendations is the number of results.
C11_MeanAndTotal ==
  (AnalyticsCalled /\ call.recommendations # <<>>) =>
    /\ ~returned[1].threw
    /\ LET recs == call.recommendations
           stats == returned[1].value[1]
       IN /\ stats.totalRecommendations = Len(recs)
          /\ stats.averageConfidence.den > 0
          /\ stats.averageConfidence.num * Len(recs)
               = ConfidenceTotal(recs, Len(recs)) * stats.averageConfidence.den

\* analytics of three results whose mean confidence is not a whole number
C11_Witness ==
  /\ AnalyticsOfNonEmpty
  /\ Len(call.recommendations) = 3
  /\ returned[1].value[1].averageConfidence.den = 3

\* C12: for every non-empty result list, userSatisfactionPrediction is
\* min(averageConfidence + 10, 95), so it never exceeds 95.
C12_SatisfactionCapped ==
  (AnalyticsCalled /\ call.recommendations # <<>>) =>
    /\ ~returned[1].threw
    /\ LET recs  == call.recommendations
           n     == Len(recs)
           total == ConfidenceTotal(recs, n)
           sat   == returned[1].value[1].userSatisfactionPrediction
       IN /\ sat.den > 0
          /\ sat.num <= 95 * sat.den
          /\ IF total + 10 * n < 95 * n
             THEN sat.num * n = (total + 10 * n) * sat.den
             ELSE sat.num = 95 * sat.den

\* analytics of a list whose mean confidence is above 85, where the cap binds
C12_Witness ==
  /\ AnalyticsOfNonEmpty
  /\ ConfidenceTotal(call.recommendations, Len(call.recommendations))
       > 85 * Len(call.recommendations)
  /\ returned[1].value[1].userSatisfactionPrediction = [num |-> 95, den |-> 1]

\* C13: implementationTimeEstimate depends only on the implementation
\* complexity of results[0]: low gives '1-2 weeks', medium '3-4 weeks', high
\* '6-8 weeks', whatever the complexities of the results after it.
C13_EstimateFromTopResult ==
  (AnalyticsCalled /\ call.recommendations # <<>>) =>
    /\ ~returned[1].threw
    /\ LET top == call.recommendations[1].implementationComplexity
           estimate == returned[1].value[1].implementationTimeEstimate
       IN /\ top = "low" => estimate = "1-2 weeks"
          /\ top = "medium" => estimate = "3-4 weeks"
          /\ top = "high" => estimate = "6-8 weeks"

\* analytics of a list whose first result is low and whose last is high
C13_Witness ==
  /\ AnalyticsOfNonEmpty
  /\ call.recommendations[1].implementationComplexity = "low"
  /\ call.recommendations[Len(call.recommendations)].implementationComplexity = "high"
  /\ returned[1].value[1].implementationTimeEstimate = "1-2 weeks"

----------------------------------------------------------------------------
(* Properties of the selector variant and of the two variants together     *)
(* (SpecFit)                                                               *)

SelectorReturned == call.fn = "contextualRecommendations" /\ returned # None

\* C21: in the selector variant a standard of the catalog is listed among
\* the recommendations if and only if its confidence is at least 20 (and
\* then exactly once), and every listed confidence lies in 0..100.
C21_SelectorThreshold ==
  SelectorReturned =>
    LET recs == returned[1]
    IN /\ \A st \in Standards :
            Occurrences(recs, st) =
              IF SelectorAccumulated(st, call.context).confidence >= 20 THEN 1 ELSE 0
       /\ \A i \in 1..Len(recs) :
            /\ recs[i].standard \in Standards
            /\ recs[i].confidence \in 0..100

\* C21 witness: the selector listed a standard whose confidence is exactly
\* 20 (an international standard for an English-medium school in India).
C21_Witness ==
  /\ SelectorReturned
  /\ \E i \in 1..Len(returned[1]) :
        /\ returned[1][i].confidence = 20
        /\ SelectorAccumulated(returned[1][i].standard, call.context).confidence = 20

\* rule k of analyzeStandardFit applied to the locals r
ApplyRule(k, r, standard, context) ==
  CASE k = 1 -> GeographicRule(r, standard, context)
    [] k = 2 -> SchoolTypeRule(r, standard, context)
    [] k = 3 -> LanguageRule(r, standard, context)
    [] k = 4 -> GradeLevelRule(r, standard, context)
    [] k = 5 -> TeachingExperienceRule(r, standard, context)
    [] k = 6 -> ResourceAvailabilityRule(r, standard, context)

\* the locals after the rules order[i..6] were applied to r in that order
RECURSIVE ApplyInOrder(_, _, _, _, _)
ApplyInOrder(order, i, r, standard, context) ==
  IF i > Len(order) THEN r
  ELSE ApplyInOrder(order, i + 1, ApplyRule(order[i], r, standard, context),
                    standard, context)

\* the order of the source and the orders that exchange two of its rules
RuleOrders ==
  { [i \in 1..6 |-> IF i = a THEN b ELSE IF i = b THEN a ELSE i] :
      a \in 1..6, b \in 1..6 }

\* locals whose priority and implementationComplexity hold a value that no
\* rule assigns: a rule assigned a field iff the field no longer holds it
Unassigned ==
  [InitialFit EXCEPT !.priority = "unassigned",
                     !.implementationComplexity = "unassigned"]

\* what each of the six rules, applied on its own, leaves in the locals
RuleWrites(standard, context) ==
  [k \in 1..6 |-> ApplyRule(k, Unassigned, standard, context)]

\* two rules that fire for the standard assign different values to priority
\* or to implementationComplexity
ConflictingWrites(standard, context) ==
  LET w == RuleWrites(standard, context)
  IN \E j \in 1..6, k \in 1..6, field \in {"priority", "implementationComplexity"} :
       /\ w[j][field] # "unassigned"
       /\ w[k][field] # "unassigned"
       /\ w[j][field] # w[k][field]

\* C22 as stated: there is a catalog standard and a context (that of the call
\* at hand or any other) in which two firing rules assign different values
\* to the same field, so that another order of evaluation yields a different
\* priority or implementationComplexity.
C22_OrderAffectsResult ==
  \E c \in Contexts \cup {call.context}, st \in Standards : ConflictingWrites(st, c)

\* C22, amended: the order in which the six rules are evaluated affects
\* neither the confidence nor the priority nor the implementationComplexity
\* that analyzeStandardFit returns: for every standard and context, the rules
\* that assign the same field assign the same value, and exchanging any two
\* of the six rules yields the returned confidence, priority and complexity.
C22_OrderWithoutEffect ==
  ScoreReturned =>
    /\ ~ConflictingWrites(call.standard, call.context)
    /\ \A o \in RuleOrders :
         LET r == ApplyInOrder(o, 1, InitialFit, call.standard, call.context)
         IN /\ Min(r.confidence, MaxConfidence) = returned[1].confidence
            /\ r.priority = returned[1].priority
            /\ r.implementationComplexity = returned[1].implementationComplexity

\* C22 witness: two rules that fire for the same standard both assign its
\* implementationComplexity (the geographic and the school-type rule for ib
\* at an international school in India).
C22_Witness ==
  /\ ScoreReturned
  /\ \E j \in 1..6, k \in 1..6 :
       /\ j # k
       /\ RuleWrites(call.standard, call.context)[j].implementationComplexity
            # "unassigned"
       /\ RuleWrites(call.standard, call.context)[k].implementationComplexity
            # "unassigned"

\* C25: for every context generateRecommendations returns at least three
\* results: every national standard when the location indicates India, every
\* international standard otherwise; so the list is never empty and
\* generateAnalytics, called on it, does not fail.
C25_AtLeastThreeResults ==
  RecommendReturned =>
    LET recs == returned[1]
        home == IF IndicatesIndia(call.context.location)
                THEN "national" ELSE "international"
    IN /\ Len(recs) >= 3
       /\ \A st \in Standards : st.region = home => Occurrences(recs, st) = 1
       /\ ~generateAnalytics(recs).threw

\* C25 witness: a list of exactly the three international standards, one of
\* them at the threshold, outside India.
C25_Witness ==
  /\ RecommendReturned
  /\ ~IndicatesIndia(call.context.location)
  /\ Len(returned[1]) = 3
  /\ \E i \in 1..3 : returned[1][i].confidence = MinimumThreshold

\* C26: in the list generateRecommendations returns, every result of
\* priority primary comes before every result of priority secondary or
\* alternative, whatever their confidences.
C26_PrimaryFirst ==
  RecommendReturned =>
    LET recs == returned[1]
    IN \A i \in 1..Len(recs), j \in 1..Len(recs) :
         (recs[i].priority = "primary" /\ recs[j].priority # "primary") => i < j

\* C26 witness: a primary result placed before a secondary result of higher
\* confidence.
C26_Witness ==
  /\ RecommendReturned
  /\ \E i \in 1..Len(returned[1]), j \in 1..Len(returned[1]) :
       /\ i < j
       /\ returned[1][i].priority = "primary"
       /\ returned[1][j].priority = "secondary"
       /\ returned[1][j].confidence > returned[1][i].confidence

\* C27: for every context the first entry of the list of the general engine
\* and the first entry of the list of the selector variant, given the
\* location, school type, language and grade of that context, are for the
\* same standard.
C27_SameTopRecommendation ==
  RecommendReturned =>
    LET general  == returned[1]
        selector == contextualRecommendations(call.context)
    IN /\ general # <<>>
       /\ selector # <<>>
       /\ general[1].standard = selector[1].standard

\* C27 witness: the two variants list different numbers of standards and
\* give their common first standard different confidences.
C27_Witness ==
  /\ RecommendReturned
  /\ LET general  == returned[1]
         selector == contextualRecommendations(call.context)
     IN /\ Len(general) # Len(selector)
        /\ general[1].standard = selector[1].standard
        /\ general[1].confidence # selector[1].confidence

\* the sum of the weights of the rules of analyzeStandardFit that fire
FiredWeights(standard, context) ==
  RuleAlone(1, standard, context).confidence + RuleAlone(2, standard, context).confidence
    + RuleAlone(3, standard, context).confidence + RuleAlone(4, standard, context).confidence
    + RuleAlone(5, standard, context).confidence + RuleAlone(6, standard, context).confidence

\* the sum of the weights of the blocks of the selector that fire
SelectorFiredWeights(standard, props) ==
  SelectorGeographic(SelectorInitial, standard, props).confidence
    + SelectorSchoolType(SelectorInitial, standard, props).confidence
    + SelectorLanguage(SelectorInitial, standard, props).confidence
    + SelectorGradeLevel(SelectorInitial, standard, props).confidence

----------------------------------------------------------------------------
(* Auto-selection of the mounted hook (Spec)                               *)

\* C24: a completing run never replaces a standard that is selected at that
\* moment: a step in which a timer fires while selectedStandard is set (by
\* selectStandard, possibly while the run was waiting) leaves
\* selectedStandard as it is.
C24_SelectionNeverOverridden ==
  [][(selectedStandard # None /\ Len(timers') < Len(timers))
       => selectedStandard' = selectedStandard]_vars

----------------------------------------------------------------------------
(* Properties of geminiService.generateLesson (SpecGemini)                 *)

GenerateLessonReturned == call.fn = "generateLesson" /\ returned # None

\* the answers that carry a complete lesson object, fenced or not
CompleteAnswers ==
  { [kind |-> "text", text |-> <<"fence json\n", "{lesson}", "\n", "fence">>],
    [kind |-> "text", text |-> <<"{lesson}">>] }

\* C23: the promise of generateLesson always resolves to a lesson and never
\* rejects.  Without an API key, or with the model of the requested version
\* null, it resolves to the demo lesson and the API is not called; when the
\* API call fails or its answer is not a complete lesson in JSON it resolves
\* to the demo lesson as well; every lesson carries the isGlobalVersion that
\* was requested.
C23_AlwaysResolves ==
  GenerateLessonReturned =>
    LET r          == returned[1]
        modelToUse == IF call.isGlobalVersion THEN service.globalModel ELSE service.model
    IN /\ ~r.rejected
       /\ r.value # None
       /\ r.value[1].isGlobalVersion = call.isGlobalVersion
       /\ (service.apiKey \in {None, Some("")}) => modelToUse = None
       /\ modelToUse = None => (r.value[1].demo /\ ~r.apiCalled)
       /\ modelToUse # None =>
            /\ r.apiCalled
            /\ r.value[1].demo = (call.answer \notin CompleteAnswers)

\* C23 witness: a configured service asked for the global version, an answer
\* that is not JSON, and the demo lesson of the global version as the result.
C23_Witness ==
  /\ GenerateLessonReturned
  /\ service.globalModel # None
  /\ call.isGlobalVersion
  /\ call.answer = [kind |-> "text", text |-> <<"Here is your lesson:", "{lesson}">>]
  /\ ~returned[1].rejected
  /\ returned[1].value[1].demo
  /\ returned[1].value[1].isGlobalVersion

----------------------------------------------------------------------------
(* Properties of the lesson wizard (SpecWizard)                            *)

\* the lesson on screen is there and was generated for the class, subject
\* and topic that the wizard holds
LessonMatchesSelection ==
  /\ lesson # None
  /\ selectedClass = Some(lesson[1].class)
  /\ selectedSubject = lesson[1].subject
  /\ topic = lesson[1].topic

\* a request settles in this step, and handleStartNewLesson has created a
\* session after the one the request was made in
SettlesAfterNewLesson ==
  \E i \in 1..Len(inFlight) :
    /\ inFlight' = WithoutTimer(inFlight, i)
    /\ inFlight[i].session # None
    /\ inFlight[i].session[1] < Len(sessions)

\* C28: whenever the current step is lesson-player the lesson is non-null and
\* selectedClass, selectedSubject and topic are the values it was generated
\* for; and a request that settles after the user started a new lesson
\* changes neither the current step nor the lesson.
C28_PlayerShowsItsLesson ==
  /\ [](currentStep = "lesson-player" => LessonMatchesSelection)
  /\ [][SettlesAfterNewLesson => (currentStep' = currentStep /\ lesson' = lesson)]_vars

\* C29: a request made after the user submitted one or more files is a call
\* of analyzeContent on the first submitted file, and the session it updates
\* receives the names of the submitted files; generateLesson is requested
\* only when the upload was skipped or the submitted list is empty.
C29_SubmittedFilesAreAnalyzed ==
  /\ \A i \in 1..Len(inFlight) :
       LET request == inFlight[i]
       IN IF request.submitted # None /\ request.submitted[1] # <<>>
          THEN /\ request.api = "analyzeContent"
               /\ request.file = Some(request.submitted[1][1])
          ELSE request.api = "generateLesson"
  /\ \A id \in 1..Len(sessions) :
       (sessions[id].files # None /\ sessions[id].submitted # None)
         => sessions[id].files = sessions[id].submitted

====
